---- MODULE Spec2Model ----
(***************************************************************************)
(* Model of the volumetric-output configuration resolver and exporter of   *)
(* src/export_helpers.py: _define_prefixes, _define_output,                *)
(* _define_variables, _define_selectors, get_volumetrics,                  *)
(* RmsInplaceVolumes.__post_init__ and _export_collection.                 *)
(*                                                                         *)
(* Python values are modelled as follows.                                  *)
(*   str that is case-converted or concatenated : sequence of characters   *)
(*   str that is only copied or compared         : TLA+ string             *)
(*   list                                        : sequence                *)
(*   dict                                        : function on its keys    *)
(*   None / DataFrame                            : tagged record           *)
(***************************************************************************)
EXTENDS Integers, Sequences, FiniteSets, TLC

VARIABLES
    pc,                  \* position of the call being modelled
    exc,                 \* exception that left the call, "none" otherwise
    warnings,            \* logger.warning records, in order
    out_input,           \* params["Output"][0]
    in_dict,             \* params["Input"][0]
    variables_input,     \* params["Variables"][0], as the list of its values()
    report_params,       \* params["Report"]
    volumetric_tables,   \* project.volumetric_tables
    prefixes,            \* return value of _define_prefixes
    selectors,           \* return value of _define_selectors
    report_output,       \* return value of _define_output / self.report_output
    var_definitions,     \* first return value of _define_variables
    variable_parameters, \* second return value of _define_variables / additional_props
    report,              \* return value of get_volumetrics / self.report
    count,               \* _export_collection: count
    attempted,           \* _export_collection: items whose fetch was started
    exported,            \* _export_collection: items whose exd.export returned
    cursor               \* _export_collection: loop indices

vars == <<pc, exc, warnings, out_input, in_dict, variables_input, report_params,
          volumetric_tables, prefixes, selectors, report_output, var_definitions,
          variable_parameters, report, count, attempted, exported, cursor>>

inputVars == <<out_input, in_dict, variables_input, report_params, volumetric_tables>>
exportVars == <<count, attempted, exported, cursor>>

Unset == "unset"

(***************************************************************************)
(* Bounds of the model.                                                    *)
(***************************************************************************)
MaxPrefixLen == 1
MaxCalcs == 2
MaxZones == 1

SeqsUpTo(S, n) == UNION {[1..k -> S] : k \in 0..n}

(***************************************************************************)
(* str.lower() and str.upper() on ASCII text.                              *)
(***************************************************************************)
UpperLetters ==
    <<"A","B","C","D","E","F","G","H","I","J","K","L","M",
      "N","O","P","Q","R","S","T","U","V","W","X","Y","Z">>
LowerLetters ==
    <<"a","b","c","d","e","f","g","h","i","j","k","l","m",
      "n","o","p","q","r","s","t","u","v","w","x","y","z">>

IndexIn(letters, c) == CHOOSE i \in 1..Len(letters) : letters[i] = c
IsIn(letters, c) == \E i \in 1..Len(letters) : letters[i] = c

LowerChar(c) == IF IsIn(UpperLetters, c) THEN LowerLetters[IndexIn(UpperLetters, c)] ELSE c
UpperChar(c) == IF IsIn(LowerLetters, c) THEN UpperLetters[IndexIn(LowerLetters, c)] ELSE c

lower(s) == [i \in 1..Len(s) |-> LowerChar(s[i])]
upper(s) == [i \in 1..Len(s) |-> UpperChar(s[i])]

(***************************************************************************)
(* _define_prefixes (lines 38-56).                                         *)
(***************************************************************************)
GasTag == <<"G","a","s","_">>
OilTag == <<"O","i","l","_">>

_define_prefixes_swapped(oi) ==
    LET prefix == IF oi.Prefix # <<>> THEN oi.Prefix \o <<"_">> ELSE oi.Prefix
        p1 == IF oi.UseOil THEN <<prefix \o OilTag>> ELSE <<>>
    IN  IF oi.UseGas THEN Append(p1, prefix \o GasTag) ELSE p1

_define_prefixes(oi) ==
    LET prefix == IF oi.Prefix # <<>> THEN oi.Prefix \o <<"_">> ELSE oi.Prefix
        p1 == IF oi.UseGas THEN <<prefix \o GasTag>> ELSE <<>>
    IN  IF oi.UseOil THEN Append(p1, prefix \o OilTag) ELSE p1

(***************************************************************************)
(* _define_output (lines 59-87).  PrefixLoop is the inner for statement    *)
(* (lines 75-79), CalculationLoop the outer one (line 74); acc holds the   *)
(* two lists being appended to.                                            *)
(***************************************************************************)
MapName_lowercased(prfx, calculation) == prfx \o lower(calculation.Type)

MapName(prfx, calculation) == prfx \o upper(calculation.Type)

PropertyName(prfx, calculation) == prfx \o lower(calculation.Type)

RECURSIVE PrefixLoop(_, _, _, _)
PrefixLoop(calculation, pfxs, j, acc) ==
    IF j > Len(pfxs) THEN acc
    ELSE LET prfx == pfxs[j]
             props == IF calculation.CreateProperty
                      THEN Append(acc.properties, PropertyName(prfx, calculation))
                      ELSE acc.properties
             mps == IF calculation.CreateZoneMap
                    THEN Append(acc.maps, MapName(prfx, calculation))
                    ELSE acc.maps
         IN  PrefixLoop(calculation, pfxs, j + 1, [properties |-> props, maps |-> mps])

RECURSIVE CalculationLoop(_, _, _, _)
CalculationLoop(calculations, pfxs, i, acc) ==
    IF i > Len(calculations) THEN acc
    ELSE CalculationLoop(calculations, pfxs, i + 1,
                         PrefixLoop(calculations[i], pfxs, 1, acc))

RECURSIVE PrefixMajorLoop(_, _, _, _)
PrefixMajorLoop(calculations, pfxs, j, acc) ==
    IF j > Len(pfxs) THEN acc
    ELSE PrefixMajorLoop(calculations, pfxs, j + 1,
                         CalculationLoop(calculations, <<pfxs[j]>>, 1, acc))

_define_output_prefix_major(oi, sel) ==
    LET acc == PrefixMajorLoop(oi.Calculations, _define_prefixes(oi), 1,
                               [properties |-> <<>>, maps |-> <<>>])
    IN  [maps |-> acc.maps,
         properties |-> acc.properties,
         map_location |-> lower(oi.MapOutput),
         map_subfolders |-> sel["Zone"].filters]

_define_output(oi, sel) ==
    LET acc == CalculationLoop(oi.Calculations, _define_prefixes(oi), 1,
                               [properties |-> <<>>, maps |-> <<>>])
    IN  [maps |-> acc.maps,
         properties |-> acc.properties,
         map_location |-> lower(oi.MapOutput),
         map_subfolders |-> sel["Zone"].filters]

(***************************************************************************)
(* Input domains for the output section of the job arguments.              *)
(***************************************************************************)
PrefixChars == {"X"}
Types == {<<"S","t","o","i","i","p">>, <<"G","i","i","p">>}
MapOutputs == {<<"Z","o","n","e","s">>}
ZoneNames == {"Above", "Below"}

CalculationSpecs ==
    [Type : Types, CreateProperty : BOOLEAN, CreateZoneMap : BOOLEAN]

OutputConfigs ==
    [Prefix : SeqsUpTo(PrefixChars, MaxPrefixLen),
     UseGas : BOOLEAN,
     UseOil : BOOLEAN,
     MapOutput : MapOutputs,
     Calculations : SeqsUpTo(CalculationSpecs, MaxCalcs)]

ZoneSelectors ==
    {("Zone" :> [filters |-> z]) @@ ("parameter" :> "subgrids") :
        z \in SeqsUpTo(ZoneNames, MaxZones)}

(***************************************************************************)
(* Calls of _define_prefixes and _define_output on an output section.      *)
(***************************************************************************)
InitOutput ==
    /\ pc = "ready"
    /\ exc = "none"
    /\ warnings = <<>>
    /\ out_input \in OutputConfigs
    /\ selectors \in ZoneSelectors
    /\ in_dict = Unset
    /\ variables_input = Unset
    /\ report_params = Unset
    /\ volumetric_tables = Unset
    /\ prefixes = Unset
    /\ report_output = Unset
    /\ var_definitions = Unset
    /\ variable_parameters = Unset
    /\ report = Unset
    /\ count = 0
    /\ attempted = <<>>
    /\ exported = <<>>
    /\ cursor = Unset

CallDefinePrefixes ==
    /\ pc = "ready"
    /\ prefixes' = _define_prefixes(out_input)
    /\ pc' = "prefixes_returned"
    /\ UNCHANGED <<exc, warnings, inputVars, selectors, report_output, var_definitions,
                   variable_parameters, report, exportVars>>

CallDefineOutput ==
    /\ pc = "ready"
    /\ report_output' = _define_output(out_input, selectors)
    /\ pc' = "output_returned"
    /\ UNCHANGED <<exc, warnings, inputVars, selectors, prefixes, var_definitions,
                   variable_parameters, report, exportVars>>

NextOutput == CallDefinePrefixes \/ CallDefineOutput

SpecOutput == InitOutput /\ [][NextOutput]_vars

(***************************************************************************)
(* _define_variables (lines 90-121).  VariableStep is the body of the      *)
(* inner for statement (lines 104-118), GroupLoop the inner loop (line     *)
(* 103) and GroupsLoop the loop over variables_input.values() (line 102).  *)
(* acc holds var_definitions, variable_parameters and the exception that   *)
(* ended the call, if any.                                                 *)
(***************************************************************************)
Last(s) == s[Len(s)]

Hidden == [str |-> "hidden"]

DataInputProperty_first_component(variable) == variable.DataInput[1][1]

DataInputProperty(variable) == Last(variable.DataInput[1])

RecordParameter_always(params, propname) == Append(params, propname)

RecordParameter(params, propname) ==
    IF \E k \in 1..Len(params) : params[k] = propname
    THEN params
    ELSE Append(params, propname)

SetItem(d, key, value) ==
    [k \in DOMAIN d \cup {key} |-> IF k = key THEN value ELSE d[k]]

VariableStep(acc, variable) ==
    IF variable.DataInput # <<>>
    THEN IF variable.DataInput[1] = <<>>
         THEN [acc EXCEPT !.exc = "IndexError"]
         ELSE LET propname == DataInputProperty(variable)
              IN  [exc |-> "none",
                   var_definitions |->
                       SetItem(acc.var_definitions, variable.Name,
                               [applies |-> variable.InputType,
                                values |-> [property |-> propname]]),
                   variable_parameters |->
                       RecordParameter(acc.variable_parameters, propname)]
    ELSE [acc EXCEPT !.var_definitions =
              SetItem(acc.var_definitions, variable.Name,
                      [applies |-> variable.InputType,
                       values |-> IF variable.InputSource = "REGION_MODEL"
                                  THEN Hidden
                                  ELSE variable.TableValues])]

RECURSIVE GroupLoop(_, _, _)
GroupLoop(var_group, k, acc) ==
    IF k > Len(var_group) \/ acc.exc # "none" THEN acc
    ELSE GroupLoop(var_group, k + 1, VariableStep(acc, var_group[k]))

RECURSIVE GroupsLoop(_, _, _)
GroupsLoop(groups, g, acc) ==
    IF g > Len(groups) \/ acc.exc # "none" THEN acc
    ELSE GroupsLoop(groups, g + 1, GroupLoop(groups[g], 1, acc))

_define_variables(groups) ==
    GroupsLoop(groups, 1,
               [exc |-> "none", var_definitions |-> <<>>, variable_parameters |-> <<>>])

(***************************************************************************)
(* Input domains for the variables section of the job arguments.           *)
(***************************************************************************)
MaxVars == 2
MaxGroups == 2

VariableNames == {"Porosity", "NetGross"}
InputSources == {"REGION_MODEL", "TABLE"}
InputTypes == {"zone"}
TableValueSets == {[table |-> <<1, 2>>]}
PoroPath == << <<"G","r","i","d">>, <<"P","O","R","O">> >>
SwPath == << <<"S","W">> >>
DataInputs ==
    {<<>>, <<PoroPath>>, <<SwPath>>, <<PoroPath, SwPath>>, <<SwPath, PoroPath>>, << <<>> >>}

Variables ==
    [Name : VariableNames,
     InputSource : InputSources,
     TableValues : TableValueSets,
     InputType : InputTypes,
     DataInput : DataInputs]

RECURSIVE Splits(_, _)
Splits(flat, k) ==
    IF k = 0
    THEN IF flat = <<>> THEN {<<>>} ELSE {}
    ELSE UNION {{<<SubSeq(flat, 1, c)>> \o rest :
                    rest \in Splits(SubSeq(flat, c + 1, Len(flat)), k - 1)} :
                c \in 0..Len(flat)}

InitVariables ==
    /\ pc = "ready"
    /\ exc = "none"
    /\ warnings = <<>>
    /\ \E flat \in SeqsUpTo(Variables, MaxVars), k \in 0..MaxGroups :
          variables_input \in Splits(flat, k)
    /\ out_input = Unset
    /\ in_dict = Unset
    /\ report_params = Unset
    /\ volumetric_tables = Unset
    /\ prefixes = Unset
    /\ selectors = Unset
    /\ report_output = Unset
    /\ var_definitions = Unset
    /\ variable_parameters = Unset
    /\ report = Unset
    /\ count = 0
    /\ attempted = <<>>
    /\ exported = <<>>
    /\ cursor = Unset

CallDefineVariables ==
    /\ pc = "ready"
    /\ LET r == _define_variables(variables_input)
       IN  /\ exc' = r.exc
           /\ var_definitions' = IF r.exc = "none" THEN r.var_definitions ELSE Unset
           /\ variable_parameters' = IF r.exc = "none" THEN r.variable_parameters ELSE Unset
           /\ pc' = IF r.exc = "none" THEN "variables_returned" ELSE "variables_raised"
    /\ UNCHANGED <<warnings, inputVars, prefixes, selectors, report_output, report,
                   exportVars>>

NextVariables == CallDefineVariables

SpecVariables == InitVariables /\ [][NextVariables]_vars

(***************************************************************************)
(* _define_selectors (lines 124-152).  SelectorLookup is the dict display  *)
(* of the try statement (lines 138-141), SelectorLoop the for statement    *)
(* (lines 136-143), ZoneUpdate the argument of selectors.update (lines     *)
(* 146-149).                                                               *)
(***************************************************************************)
possible_selectors == <<"Zone", "Region", "Facies">>

NamesKey(key) == IF key = "Region" THEN "SelectedRegionNames" ELSE "SelectedFaciesNames"
PropertyKey(key) == IF key = "Region" THEN "RegionProperty" ELSE "FaciesProperty"

SelectorLookup(d, key) ==
    IF NamesKey(key) \notin DOMAIN d THEN [exc |-> "KeyError"]
    ELSE IF PropertyKey(key) \notin DOMAIN d THEN [exc |-> "KeyError"]
    ELSE IF d[PropertyKey(key)] = <<>> THEN [exc |-> "IndexError"]
    ELSE [exc |-> "none",
          value |-> [filters |-> d[NamesKey(key)],
                     parameter |-> Last(d[PropertyKey(key)])]]

RECURSIVE SelectorLoop(_, _, _)
SelectorLoop(d, keys, acc) ==
    IF keys = <<>> \/ acc.exc # "none" THEN acc
    ELSE LET key == Head(keys)
             r == SelectorLookup(d, key)
         IN  SelectorLoop(d, Tail(keys),
                 CASE r.exc = "none" ->
                          [acc EXCEPT !.selectors = SetItem(acc.selectors, key, r.value)]
                   [] r.exc = "IndexError" ->
                          [acc EXCEPT !.warnings = Append(acc.warnings, key)]
                   [] OTHER -> [acc EXCEPT !.exc = r.exc])

ZoneUpdate_nested(d) ==
    "Zone" :> [filters |-> d["SelectedZoneNames"], parameter |-> "subgrids"]

ZoneUpdate(d) ==
    ("Zone" :> [filters |-> d["SelectedZoneNames"]]) @@ ("parameter" :> "subgrids")

_define_selectors(d) ==
    LET acc == SelectorLoop(d, Tail(possible_selectors),
                            [exc |-> "none", selectors |-> <<>>, warnings |-> <<>>])
    IN  IF acc.exc # "none" THEN acc
        ELSE IF "SelectedZoneNames" \notin DOMAIN d THEN [acc EXCEPT !.exc = "KeyError"]
        ELSE [acc EXCEPT !.selectors = ZoneUpdate(d) @@ acc.selectors]

(***************************************************************************)
(* Input domains for the input section of the job arguments.  A key may be *)
(* missing from the dict.                                                  *)
(***************************************************************************)
Optional(key, values) == {<<>>} \cup {key :> v : v \in values}

NameLists(prefix) == {<<>>, <<prefix>>}
PropertyLists(name) == {<<>>, <<name>>, <<"Grid", name>>}

InputConfigs ==
    {z @@ rn @@ rp @@ fn @@ fp :
        z \in Optional("SelectedZoneNames", SeqsUpTo(ZoneNames, MaxZones)),
        rn \in Optional("SelectedRegionNames", NameLists("West")),
        rp \in Optional("RegionProperty", PropertyLists("Regions")),
        fn \in Optional("SelectedFaciesNames", NameLists("Sand")),
        fp \in Optional("FaciesProperty", PropertyLists("Facies"))}

InitSelectors ==
    /\ pc = "ready"
    /\ exc = "none"
    /\ warnings = <<>>
    /\ in_dict \in InputConfigs
    /\ out_input = Unset
    /\ variables_input = Unset
    /\ report_params = Unset
    /\ volumetric_tables = Unset
    /\ prefixes = Unset
    /\ selectors = Unset
    /\ report_output = Unset
    /\ var_definitions = Unset
    /\ variable_parameters = Unset
    /\ report = Unset
    /\ count = 0
    /\ attempted = <<>>
    /\ exported = <<>>
    /\ cursor = Unset

CallDefineSelectors ==
    /\ pc = "ready"
    /\ LET r == _define_selectors(in_dict)
       IN  /\ exc' = r.exc
           /\ warnings' = r.warnings
           /\ selectors' = IF r.exc = "none" THEN r.selectors ELSE Unset
           /\ pc' = IF r.exc = "none" THEN "selectors_returned" ELSE "selectors_raised"
    /\ UNCHANGED <<inputVars, prefixes, report_output, var_definitions,
                   variable_parameters, report, exportVars>>

NextSelectors == CallDefineSelectors

SpecSelectors == InitSelectors /\ [][NextSelectors]_vars

(***************************************************************************)
(* get_volumetrics (lines 155-178).  A DataFrame is modelled by the        *)
(* sequence of its column labels; the rows play no part in the function.   *)
(* DataFrame.rename maps the labels found in RENAME_VOLUMES and keeps the  *)
(* others; DataFrame.drop raises KeyError when no column carries the       *)
(* label and removes every column that does.                               *)
(***************************************************************************)
RENAME_VOLUMES ==
    ("Proj. real." :> "REAL") @@ ("Zone" :> "ZONE") @@ ("Segment" :> "REGION") @@
    ("Boundary" :> "LICENSE") @@ ("Facies" :> "FACIES") @@ ("BulkOil" :> "BULK_OIL") @@
    ("NetOil" :> "NET_OIL") @@ ("PoreOil" :> "PORV_OIL") @@ ("HCPVOil" :> "HCPV_OIL") @@
    ("STOIIP" :> "STOIIP_OIL") @@ ("AssociatedGas" :> "ASSOCIATEDGAS_OIL") @@
    ("BulkGas" :> "BULK_GAS") @@ ("PoreGas" :> "PORV_GAS") @@ ("HCPVGas" :> "HCPV_GAS") @@
    ("GIIP" :> "GIIP_GAS") @@ ("AssociatedLiquid" :> "ASSOCIATEDOIL_GAS") @@
    ("Bulk" :> "BULK_TOTAL") @@ ("Net" :> "NET_TOTAL") @@ ("Pore" :> "PORV_TOTAL")

None == [kind |-> "None"]
DataFrame(columns) == [kind |-> "DataFrame", columns |-> columns]

rename(columns, mapper) ==
    [i \in 1..Len(columns) |->
        IF columns[i] \in DOMAIN mapper THEN mapper[columns[i]] ELSE columns[i]]

HasColumn(columns, label) == \E i \in 1..Len(columns) : columns[i] = label

drop(columns, label) == SelectSeq(columns, LAMBDA c : c # label)

NoVolumeTable == "No volume table attached"

VolumesOf(table) ==
    LET renamed == rename(table, RENAME_VOLUMES)
    IN  IF HasColumn(renamed, "REAL")
        THEN [exc |-> "none", volumes |-> DataFrame(drop(renamed, "REAL"))]
        ELSE [exc |-> "KeyError"]

get_volumetrics(rp, tables) ==
    IF rp = <<>> THEN [exc |-> "IndexError", warnings |-> <<>>]
    ELSE LET tried ==
                 IF "ReportTableName" \notin DOMAIN rp[1] THEN [exc |-> "KeyError"]
                 ELSE IF rp[1]["ReportTableName"] \notin DOMAIN tables
                      THEN [exc |-> "KeyError"]
                      ELSE VolumesOf(tables[rp[1]["ReportTableName"]])
         IN  IF tried.exc = "KeyError"
             THEN [exc |-> "none", volumes |-> None, warnings |-> <<NoVolumeTable>>]
             ELSE [exc |-> "none", volumes |-> tried.volumes, warnings |-> <<>>]

(***************************************************************************)
(* RmsInplaceVolumes.__post_init__ (lines 255-271).  The job arguments and *)
(* the project are the inputs; the calls are made in the order of the      *)
(* source and the first exception leaves the constructor.                  *)
(***************************************************************************)
ExtendProperties_skipped(collated, additional_props) == collated

ExtendProperties(collated, additional_props) ==
    [collated EXCEPT !.properties = @ \o additional_props]

SetTable(collated, table) ==
    [k \in DOMAIN collated \cup {"table"} |->
        IF k = "table" THEN table ELSE collated[k]]

PostInitResult(rp, tables, input, output, variables) ==
    LET vol == get_volumetrics(rp, tables)
        sel == _define_selectors(input)
        defs == _define_variables(variables)
        blank == [exc |-> "none", warnings |-> <<>>, report |-> Unset,
                  selectors |-> Unset, report_output |-> Unset,
                  input_variables |-> Unset, additional_props |-> Unset]
    IN  IF vol.exc # "none"
        THEN [blank EXCEPT !.exc = vol.exc]
        ELSE IF sel.exc # "none"
        THEN [blank EXCEPT !.exc = sel.exc, !.report = vol.volumes,
                           !.warnings = vol.warnings \o sel.warnings]
        ELSE IF defs.exc # "none"
        THEN [blank EXCEPT !.exc = defs.exc, !.report = vol.volumes,
                           !.warnings = vol.warnings \o sel.warnings,
                           !.selectors = sel.selectors,
                           !.report_output = _define_output(output, sel.selectors)]
        ELSE [exc |-> "none",
              warnings |-> vol.warnings \o sel.warnings,
              report |-> vol.volumes,
              selectors |-> sel.selectors,
              report_output |->
                  SetTable(ExtendProperties(_define_output(output, sel.selectors),
                                            defs.variable_parameters),
                           vol.volumes),
              input_variables |-> defs.var_definitions,
              additional_props |-> defs.variable_parameters]

(***************************************************************************)
(* Input domains for a whole set of job arguments.                         *)
(***************************************************************************)
MaxPlanCalcs == 1

PlanOutputs ==
    [Prefix : SeqsUpTo(PrefixChars, MaxPrefixLen),
     UseGas : BOOLEAN,
     UseOil : BOOLEAN,
     MapOutput : MapOutputs,
     Calculations : SeqsUpTo(CalculationSpecs, MaxPlanCalcs)]

PlanInputs ==
    {[SelectedZoneNames |-> <<"Above", "Below">>,
      SelectedRegionNames |-> <<"West">>, RegionProperty |-> <<"Grid", "Regions">>,
      SelectedFaciesNames |-> <<>>, FaciesProperty |-> <<>>],
     [SelectedZoneNames |-> <<"Above">>,
      SelectedRegionNames |-> <<"West">>, RegionProperty |-> <<"Grid", "Regions">>,
      SelectedFaciesNames |-> <<"Sand">>]}

PlanVariable(source, data_input) ==
    [Name |-> "Porosity", InputSource |-> source, TableValues |-> [table |-> <<1, 2>>],
     InputType |-> "zone", DataInput |-> data_input]

PlanVariables ==
    {<<>>,
     << <<PlanVariable("TABLE", <<>>)>> >>,
     << <<PlanVariable("TABLE", <<PoroPath>>)>> >>,
     << <<PlanVariable("TABLE", << <<>> >>)>> >>}

Tables ==
    {<<"Proj. real.", "Zone", "STOIIP">>,
     <<"Zone", "Proj. real.">>,
     <<"Zone", "STOIIP">>,
     <<"Other">>}

ReportConfigs ==
    {<<>>, << <<>> >>, <<[ReportTableName |-> "Volumes"]>>}

ProjectTables == {<<>>} \cup {"Volumes" :> t : t \in Tables}

InitInplace ==
    /\ pc = "ready"
    /\ exc = "none"
    /\ warnings = <<>>
    /\ out_input \in PlanOutputs
    /\ in_dict \in PlanInputs
    /\ variables_input \in PlanVariables
    /\ report_params \in ReportConfigs
    /\ volumetric_tables \in ProjectTables
    /\ prefixes = Unset
    /\ selectors = Unset
    /\ report_output = Unset
    /\ var_definitions = Unset
    /\ variable_parameters = Unset
    /\ report = Unset
    /\ count = 0
    /\ attempted = <<>>
    /\ exported = <<>>
    /\ cursor = Unset

PostInit ==
    /\ pc = "ready"
    /\ LET r == PostInitResult(report_params, volumetric_tables, in_dict, out_input,
                               variables_input)
       IN  /\ exc' = r.exc
           /\ warnings' = r.warnings
           /\ report' = r.report
           /\ selectors' = r.selectors
           /\ report_output' = r.report_output
           /\ var_definitions' = r.input_variables
           /\ variable_parameters' = r.additional_props
           /\ pc' = IF r.exc = "none" THEN "constructed" ELSE "construct_raised"
    /\ UNCHANGED <<inputVars, prefixes, exportVars>>

NextInplace == PostInit

SpecInplace == InitInplace /\ [][NextInplace]_vars

(***************************************************************************)
(* _export_collection (lines 181-243), called by RmsInplaceVolumes.export  *)
(* (lines 273-276) on self.report_output.  One action per loop iteration.  *)
(* surface_from_roxar, gridproperty_from_roxar and ExportData.export are   *)
(* calls into other libraries: each item either is exported, or one of its *)
(* calls raises KeyError, or one raises another exception (ValueError      *)
(* stands for the kinds the surface and table handlers do not catch,       *)
(* KeyError for the kind the property handler does not catch).             *)
(***************************************************************************)
MaxMaps == 2
MaxFolders == 2
MaxProps == 2

job_name == "volumes_job"

Stoiip == [Type |-> <<"S","t","o","i","i","p">>]
Giip == [Type |-> <<"G","i","i","p">>]

MapPool ==
    <<MapName(OilTag, Stoiip), MapName(GasTag, Giip),
      MapName(OilTag, Giip), MapName(GasTag, Stoiip)>>
FolderPool == <<"Above", "Below", "Base", "Top">>
PropertyPool ==
    <<PropertyName(OilTag, Stoiip), PropertyName(GasTag, Giip), Last(PoroPath), Last(SwPath)>>

Min(a, b) == IF a < b THEN a ELSE b
FirstOf(pool, n) == SubSeq(pool, 1, Min(n, Len(pool)))

Collections ==
    {[maps |-> FirstOf(MapPool, m),
      properties |-> FirstOf(PropertyPool, p),
      map_location |-> lower(<<"Z","o","n","e","s">>),
      map_subfolders |-> FirstOf(FolderPool, f),
      table |-> t] :
        m \in 0..MaxMaps, f \in 0..MaxFolders, p \in 0..MaxProps,
        t \in {None, DataFrame(<<"ZONE", "STOIIP_OIL">>)}}

Outcomes == {"exported", "KeyError", "ValueError"}

SurfaceItem(map_name, folder_name) ==
    [kind |-> "surface", name |-> map_name,
     folder |-> <<"Volumetrics_", job_name, "/", folder_name>>]
PropertyItem(property_name) ==
    [kind |-> "property", name |-> property_name, folder |-> <<>>]
TableItem == [kind |-> "table", name |-> "volumes", folder |-> <<>>]

SurfaceCaught_nothing(outcome) == FALSE

SurfaceCaught(outcome) == outcome = "KeyError"

PropertyCaught(outcome) == outcome = "ValueError"

TableCaught(outcome) == outcome = "KeyError"

InitExport ==
    /\ pc = "maps"
    /\ exc = "none"
    /\ warnings = <<>>
    /\ report_output \in Collections
    /\ out_input = Unset
    /\ in_dict = Unset
    /\ variables_input = Unset
    /\ report_params = Unset
    /\ volumetric_tables = Unset
    /\ prefixes = Unset
    /\ selectors = Unset
    /\ var_definitions = Unset
    /\ variable_parameters = Unset
    /\ report = Unset
    /\ count = 0
    /\ attempted = <<>>
    /\ exported = <<>>
    /\ cursor = [map |-> 1, folder |-> 1, property |-> 1]

exportFixed == <<inputVars, prefixes, selectors, report_output, var_definitions,
                 variable_parameters, report>>

\* One pass of the body of the inner for statement (lines 193-210).
ExportSurface ==
    /\ pc = "maps"
    /\ cursor.map <= Len(report_output.maps)
    /\ cursor.folder <= Len(report_output.map_subfolders)
    /\ LET map_name == report_output.maps[cursor.map]
           item == SurfaceItem(map_name, report_output.map_subfolders[cursor.folder])
       IN  /\ attempted' = Append(attempted, item)
           /\ \E outcome \in Outcomes :
                 IF outcome = "exported"
                 THEN /\ count' = count + 1
                      /\ exported' = Append(exported, item)
                      /\ cursor' = [cursor EXCEPT !.folder = @ + 1]
                      /\ UNCHANGED <<pc, exc, warnings>>
                 ELSE IF SurfaceCaught(outcome)
                 THEN /\ warnings' = Append(warnings, <<"No surface called", map_name>>)
                      /\ cursor' = [cursor EXCEPT !.folder = @ + 1]
                      /\ UNCHANGED <<pc, exc, count, exported>>
                 ELSE /\ pc' = "aborted"
                      /\ exc' = outcome
                      /\ UNCHANGED <<warnings, count, exported, cursor>>
    /\ UNCHANGED exportFixed

\* The inner for statement is exhausted: next pass of the outer one (line 191).
NextMap ==
    /\ pc = "maps"
    /\ cursor.map <= Len(report_output.maps)
    /\ cursor.folder > Len(report_output.map_subfolders)
    /\ cursor' = [cursor EXCEPT !.map = @ + 1, !.folder = 1]
    /\ UNCHANGED <<pc, exc, warnings, count, attempted, exported, exportFixed>>

\* The outer for statement is exhausted: on to line 211.
EndMaps ==
    /\ pc = "maps"
    /\ cursor.map > Len(report_output.maps)
    /\ pc' = "properties"
    /\ UNCHANGED <<exc, warnings, exportVars, exportFixed>>

\* One pass of the body of the for statement over properties (lines 212-223).
ExportProperty ==
    /\ pc = "properties"
    /\ cursor.property <= Len(report_output.properties)
    /\ LET property_name == report_output.properties[cursor.property]
           item == PropertyItem(property_name)
       IN  /\ attempted' = Append(attempted, item)
           /\ \E outcome \in Outcomes :
                 IF outcome = "exported"
                 THEN /\ count' = count + 1
                      /\ exported' = Append(exported, item)
                      /\ cursor' = [cursor EXCEPT !.property = @ + 1]
                      /\ UNCHANGED <<pc, exc, warnings>>
                 ELSE IF PropertyCaught(outcome)
                 THEN /\ warnings' = Append(warnings, <<"No parameter called", property_name>>)
                      /\ cursor' = [cursor EXCEPT !.property = @ + 1]
                      /\ UNCHANGED <<pc, exc, count, exported>>
                 ELSE /\ pc' = "aborted"
                      /\ exc' = outcome
                      /\ UNCHANGED <<warnings, count, exported, cursor>>
    /\ UNCHANGED exportFixed

\* The for statement over properties is exhausted: on to line 224.
EndProperties ==
    /\ pc = "properties"
    /\ cursor.property > Len(report_output.properties)
    /\ pc' = "table"
    /\ UNCHANGED <<exc, warnings, exportVars, exportFixed>>

\* The try statement for the table and the final logger.info (lines 224-243).
ExportTable ==
    /\ pc = "table"
    /\ IF report_output.table # None
       THEN /\ attempted' = Append(attempted, TableItem)
            /\ \E outcome \in Outcomes :
                  IF outcome = "exported"
                  THEN /\ count' = count + 1
                       /\ exported' = Append(exported, TableItem)
                       /\ pc' = "done"
                       /\ UNCHANGED <<exc, warnings>>
                  ELSE IF TableCaught(outcome)
                  THEN /\ warnings' = Append(warnings, <<NoVolumeTable>>)
                       /\ pc' = "done"
                       /\ UNCHANGED <<exc, count, exported>>
                  ELSE /\ pc' = "aborted"
                       /\ exc' = outcome
                       /\ UNCHANGED <<warnings, count, exported>>
       ELSE /\ warnings' = Append(warnings, <<"No volumes exported">>)
            /\ pc' = "done"
            /\ UNCHANGED <<exc, count, attempted, exported>>
    /\ UNCHANGED <<cursor, exportFixed>>

NextExport ==
    \/ ExportSurface
    \/ NextMap
    \/ EndMaps
    \/ ExportProperty
    \/ EndProperties
    \/ ExportTable

SpecExport == InitExport /\ [][NextExport]_vars

(***************************************************************************)
(* Properties of _define_prefixes and _define_output (SpecOutput).         *)
(***************************************************************************)
Count(flag) == IF flag THEN 1 ELSE 0

Base(oi) == IF oi.Prefix = <<>> THEN <<>> ELSE Append(oi.Prefix, "_")

\* C1: _define_prefixes returns base + "Gas_" if UseGas, followed by
\* base + "Oil_" if UseOil, and nothing else, where base is Prefix + "_" for a
\* non-empty Prefix and "" otherwise; it returns ["Gas_", "Oil_"] for Prefix ""
\* and ["X_Gas_", "X_Oil_"] for Prefix "X" with both flags set, and [] with
\* neither flag set.
C1_PrefixesGasBeforeOil ==
    pc = "prefixes_returned" =>
        LET n == Count(out_input.UseGas) + Count(out_input.UseOil)
            both == out_input.UseGas /\ out_input.UseOil
        IN  /\ Len(prefixes) = n
            /\ out_input.UseGas => prefixes[1] = Base(out_input) \o <<"G","a","s","_">>
            /\ out_input.UseOil => prefixes[n] = Base(out_input) \o <<"O","i","l","_">>
            /\ (both /\ out_input.Prefix = <<>>) =>
                   prefixes = << <<"G","a","s","_">>, <<"O","i","l","_">> >>
            /\ (both /\ out_input.Prefix = <<"X">>) =>
                   prefixes = << <<"X","_","G","a","s","_">>, <<"X","_","O","i","l","_">> >>
            /\ (~out_input.UseGas /\ ~out_input.UseOil) => prefixes = <<>>

C1_Witness ==
    /\ pc = "prefixes_returned"
    /\ out_input.Prefix = <<"X">>
    /\ out_input.UseGas
    /\ out_input.UseOil
    /\ Len(prefixes) = 2

CreatingProperty(calculations) == SelectSeq(calculations, LAMBDA c : c.CreateProperty)
CreatingZoneMap(calculations) == SelectSeq(calculations, LAMBDA c : c.CreateZoneMap)

\* Entry k of a calculation-major, prefix-minor listing: the calculation is
\* the quotient and the prefix the remainder of k - 1 by the number of prefixes.
CalculationAt(chosen, pfxs, k) == chosen[((k - 1) \div Len(pfxs)) + 1]
PrefixAt(pfxs, k) == pfxs[((k - 1) % Len(pfxs)) + 1]

\* C2: _define_output lists properties (prefix + lowercase Type, for the
\* calculations with CreateProperty) and maps (prefix + uppercase Type, for the
\* calculations with CreateZoneMap) in calculation-major, prefix-minor order.
C2_CalculationMajorOrder ==
    pc = "output_returned" =>
        LET pfxs == _define_prefixes(out_input)
            cp == CreatingProperty(out_input.Calculations)
            cm == CreatingZoneMap(out_input.Calculations)
        IN  /\ Len(report_output.properties) = Len(cp) * Len(pfxs)
            /\ Len(report_output.maps) = Len(cm) * Len(pfxs)
            /\ \A k \in 1..Len(report_output.properties) :
                   report_output.properties[k] =
                       PrefixAt(pfxs, k) \o lower(CalculationAt(cp, pfxs, k).Type)
            /\ \A k \in 1..Len(report_output.maps) :
                   report_output.maps[k] =
                       PrefixAt(pfxs, k) \o upper(CalculationAt(cm, pfxs, k).Type)

C2_Witness ==
    /\ pc = "output_returned"
    /\ Len(_define_prefixes(out_input)) = 2
    /\ Len(out_input.Calculations) = 2
    /\ out_input.Calculations[1].Type # out_input.Calculations[2].Type
    /\ Len(report_output.properties) = 4
    /\ Len(report_output.maps) = 2

OilStoiipConfig(oi) ==
    /\ oi.Prefix = <<>>
    /\ ~oi.UseGas
    /\ oi.UseOil
    /\ oi.Calculations =
           <<[Type |-> <<"S","t","o","i","i","p">>, CreateProperty |-> TRUE,
              CreateZoneMap |-> TRUE]>>

\* C3 as stated: for prefixes ["Oil_"] and the single calculation
\* {Type "Stoiip", CreateProperty, CreateZoneMap}, properties == ["Oil_stoiip"]
\* and maps == ["OIL_STOIIP"].
C3_AsStated ==
    (pc = "output_returned" /\ OilStoiipConfig(out_input)) =>
        /\ report_output.properties = << <<"O","i","l","_","s","t","o","i","i","p">> >>
        /\ report_output.maps = << <<"O","I","L","_","S","T","O","I","I","P">> >>

\* C3 as amended: for that configuration properties == ["Oil_stoiip"] and
\* maps == ["Oil_STOIIP"]: only the Type is upper-cased, the prefix is kept.
C3_PrefixKeepsItsCase ==
    (pc = "output_returned" /\ OilStoiipConfig(out_input)) =>
        /\ report_output.properties = << <<"O","i","l","_","s","t","o","i","i","p">> >>
        /\ report_output.maps = << <<"O","i","l","_","S","T","O","I","I","P">> >>

C3_Witness ==
    /\ pc = "output_returned"
    /\ OilStoiipConfig(out_input)
    /\ Len(report_output.maps) = 1
    /\ report_output.maps[1][1] = "O"
    /\ report_output.maps[1][2] = "i"

(***************************************************************************)
(* Properties of _define_variables (SpecVariables).                        *)
(***************************************************************************)
RECURSIVE Flatten(_)
Flatten(groups) == IF groups = <<>> THEN <<>> ELSE Head(groups) \o Flatten(Tail(groups))

\* The entry whose record is the one kept under its Name: no later entry
\* carries the same Name.
KeptEntry(flat, i) == \A j \in (i + 1)..Len(flat) : flat[j].Name # flat[i].Name

NonEmptyLists(data_input) ==
    /\ data_input # <<>>
    /\ \A k \in 1..Len(data_input) : data_input[k] # <<>>

\* C4 as stated: a variable whose DataInput is a non-empty list of non-empty
\* lists is recorded with values == {property: DataInput[-1][-1]}, also when
\* DataInput has more than one element.
C4_AsStated ==
    pc = "variables_returned" =>
        LET flat == Flatten(variables_input)
        IN  \A i \in 1..Len(flat) :
                (NonEmptyLists(flat[i].DataInput) /\ KeptEntry(flat, i)) =>
                    var_definitions[flat[i].Name].values =
                        [property |-> Last(Last(flat[i].DataInput))]

\* C4 as amended: such a variable is recorded with
\* values == {property: DataInput[0][-1]}, the last element of the FIRST
\* element of DataInput.
C4_FirstElementsLast ==
    pc = "variables_returned" =>
        LET flat == Flatten(variables_input)
        IN  \A i \in 1..Len(flat) :
                (NonEmptyLists(flat[i].DataInput) /\ KeptEntry(flat, i)) =>
                    var_definitions[flat[i].Name].values =
                        [property |-> Last(Head(flat[i].DataInput))]

C4_Witness ==
    /\ pc = "variables_returned"
    /\ \E i \in 1..Len(Flatten(variables_input)) :
          LET v == Flatten(variables_input)[i]
          IN  /\ Len(v.DataInput) = 2
              /\ NonEmptyLists(v.DataInput)
              /\ Last(Head(v.DataInput)) # Last(Last(v.DataInput))
              /\ var_definitions[v.Name].values = [property |-> Last(Head(v.DataInput))]

\* The property names referenced, in iteration order (group order, then
\* within-group order), one per variable with a non-empty DataInput.
References(groups) ==
    LET linked == SelectSeq(Flatten(groups), LAMBDA v : v.DataInput # <<>>)
    IN  [i \in 1..Len(linked) |-> Last(Head(linked[i].DataInput))]

FirstReference(refs, name) ==
    CHOOSE i \in 1..Len(refs) :
        /\ refs[i] = name
        /\ \A j \in 1..(i - 1) : refs[j] # name

\* C5: the AdditionalProperties list returned by _define_variables holds each
\* referenced property name exactly once, holds no other name, and is ordered
\* by first reference.
C5_AdditionalPropertiesOnceInOrder ==
    pc = "variables_returned" =>
        LET refs == References(variables_input)
            n == Len(variable_parameters)
        IN  /\ {variable_parameters[k] : k \in 1..n} = {refs[i] : i \in 1..Len(refs)}
            /\ \A a, b \in 1..n :
                   a # b => variable_parameters[a] # variable_parameters[b]
            /\ \A a, b \in 1..n :
                   a < b => FirstReference(refs, variable_parameters[a])
                                < FirstReference(refs, variable_parameters[b])

C5_Witness ==
    /\ pc = "variables_returned"
    /\ Len(variables_input) = 2
    /\ Len(References(variables_input)) = 2
    /\ References(variables_input)[1] = References(variables_input)[2]
    /\ Len(variable_parameters) = 1

(***************************************************************************)
(* Properties of _define_selectors (SpecSelectors).                        *)
(***************************************************************************)
Unresolvable(d, names, property) ==
    \/ names \notin DOMAIN d
    \/ property \notin DOMAIN d
    \/ d[property] = <<>>

Omitted(key) ==
    /\ pc = "selectors_returned"
    /\ key \notin DOMAIN selectors
    /\ \E k \in 1..Len(warnings) : warnings[k] = key
    /\ selectors["Zone"].filters = in_dict["SelectedZoneNames"]

\* C6: for Region and for Facies, when the property list is empty or absent
\* or the Selected...Names list is absent, _define_selectors does not raise,
\* omits the key, records a warning and still returns the zone filters; a
\* failure for Region does not keep Facies from being resolved.
C6_AbsenceIsNotFatal ==
    (pc # "ready" /\ "SelectedZoneNames" \in DOMAIN in_dict) =>
        /\ Unresolvable(in_dict, "SelectedRegionNames", "RegionProperty")
               => Omitted("Region")
        /\ Unresolvable(in_dict, "SelectedFaciesNames", "FaciesProperty")
               => Omitted("Facies")
        /\ (/\ Unresolvable(in_dict, "SelectedRegionNames", "RegionProperty")
            /\ ~Unresolvable(in_dict, "SelectedFaciesNames", "FaciesProperty"))
               => (pc = "selectors_returned" /\ "Facies" \in DOMAIN selectors)

\* C9: the mapping returned by _define_selectors has key Zone with exactly
\* {filters: SelectedZoneNames}, top-level key parameter == "subgrids", and
\* besides these only Region and Facies, each of the form
\* {filters: Selected<Key>Names, parameter: last element of <Key>Property}.
C9_SelectorShape ==
    pc = "selectors_returned" =>
        /\ {"Zone", "parameter"} \subseteq DOMAIN selectors
        /\ DOMAIN selectors \subseteq {"Zone", "parameter", "Region", "Facies"}
        /\ selectors["Zone"] = [filters |-> in_dict["SelectedZoneNames"]]
        /\ selectors["parameter"] = "subgrids"
        /\ "Region" \in DOMAIN selectors =>
               selectors["Region"] =
                   [filters |-> in_dict["SelectedRegionNames"],
                    parameter |-> in_dict["RegionProperty"][Len(in_dict["RegionProperty"])]]
        /\ "Facies" \in DOMAIN selectors =>
               selectors["Facies"] =
                   [filters |-> in_dict["SelectedFaciesNames"],
                    parameter |-> in_dict["FaciesProperty"][Len(in_dict["FaciesProperty"])]]

C9_Witness ==
    /\ pc = "selectors_returned"
    /\ "Region" \in DOMAIN selectors
    /\ Len(in_dict["RegionProperty"]) = 2
    /\ "Facies" \notin DOMAIN selectors
    /\ in_dict["SelectedZoneNames"] # <<>>

(***************************************************************************)
(* Properties of get_volumetrics and RmsInplaceVolumes.__post_init__       *)
(* (SpecInplace).                                                          *)
(***************************************************************************)
NamesATable == report_params # <<>> /\ "ReportTableName" \in DOMAIN report_params[1]

TableExists == report_params[1]["ReportTableName"] \in DOMAIN volumetric_tables

Renamed(label) == IF label \in DOMAIN RENAME_VOLUMES THEN RENAME_VOLUMES[label] ELSE label

\* The table with the fixed renames applied and every REAL column removed.
RenamedWithoutReal(table) ==
    LET kept == SelectSeq(table, LAMBDA label : Renamed(label) # "REAL")
    IN  [kind |-> "DataFrame", columns |-> [i \in 1..Len(kept) |-> Renamed(kept[i])]]

\* C7: when ReportTableName names no table of the project, get_volumetrics
\* returns None without raising and a completed construction has
\* report_output["table"] == None; when the table exists, the result is the
\* table (not None) with the fixed renames applied and the REAL column removed.
C7_TableOrNone ==
    (pc \in {"constructed", "construct_raised"} /\ NamesATable) =>
        /\ ~TableExists =>
               /\ report = None
               /\ pc = "constructed" => report_output["table"] = None
        /\ TableExists =>
               /\ report # None
               /\ report = RenamedWithoutReal(
                               volumetric_tables[report_params[1]["ReportTableName"]])

StartsWith(s, p) == Len(p) <= Len(s) /\ SubSeq(s, 1, Len(p)) = p

Prefixed(entry, pfxs) == \E j \in 1..Len(pfxs) : StartsWith(entry, pfxs[j])

\* C8 as stated: in the plan built by __post_init__, after the
\* AdditionalProperties have been appended, maps and properties are empty when
\* neither UseGas nor UseOil is set, and with at least one prefix every entry
\* of maps and of properties starts with one of the prefixes.
C8_AsStated ==
    pc = "constructed" =>
        LET pfxs == _define_prefixes(out_input)
        IN  /\ (~out_input.UseGas /\ ~out_input.UseOil) =>
                   (report_output.maps = <<>> /\ report_output.properties = <<>>)
            /\ pfxs # <<>> =>
                   /\ \A k \in 1..Len(report_output.maps) :
                          Prefixed(report_output.maps[k], pfxs)
                   /\ \A k \in 1..Len(report_output.properties) :
                          Prefixed(report_output.properties[k], pfxs)

\* C8 as amended: properties ends with the AdditionalProperties, appended
\* as they are; the statement holds of maps and of the entries of properties
\* before them: none when neither UseGas nor UseOil is set, and each starting
\* with one of the prefixes when at least one prefix exists.
C8_PrefixedBeforeAdditional ==
    pc = "constructed" =>
        LET pfxs == _define_prefixes(out_input)
            n == Len(report_output.properties) - Len(variable_parameters)
        IN  /\ n >= 0
            /\ SubSeq(report_output.properties, n + 1, Len(report_output.properties))
                   = variable_parameters
            /\ (~out_input.UseGas /\ ~out_input.UseOil) =>
                   (report_output.maps = <<>> /\ n = 0)
            /\ pfxs # <<>> =>
                   /\ \A k \in 1..Len(report_output.maps) :
                          Prefixed(report_output.maps[k], pfxs)
                   /\ \A k \in 1..n :
                          Prefixed(report_output.properties[k], pfxs)

C8_Witness ==
    /\ pc = "constructed"
    /\ out_input.UseOil
    /\ variable_parameters # <<>>
    /\ Len(report_output.maps) > 0
    /\ Len(report_output.properties) > Len(variable_parameters)
    /\ ~Prefixed(Last(report_output.properties), _define_prefixes(out_input))

(***************************************************************************)
(* Properties of _export_collection (SpecExport).                          *)
(***************************************************************************)
\* Every (map name, subfolder) pair in map-major order, then every property,
\* then the table when there is one.
ItemsInOrder(collection) ==
    LET nf == Len(collection.map_subfolders)
        surfaces == [k \in 1..(Len(collection.maps) * nf) |->
                        [kind |-> "surface",
                         name |-> collection.maps[((k - 1) \div nf) + 1],
                         folder |-> <<"Volumetrics_", job_name, "/",
                                      collection.map_subfolders[((k - 1) % nf) + 1]>>]]
        props == [k \in 1..Len(collection.properties) |->
                        [kind |-> "property", name |-> collection.properties[k],
                         folder |-> <<>>]]
        table == IF collection.table = None THEN <<>>
                 ELSE <<[kind |-> "table", name |-> "volumes", folder |-> <<>>]>>
    IN  surfaces \o props \o table

IsPrefix(s, t) == Len(s) <= Len(t) /\ SubSeq(t, 1, Len(s)) = s

\* The handler that guards an item catches this exception.
HandlerCatches(item, exception) ==
    IF item.kind = "property" THEN exception = "ValueError" ELSE exception = "KeyError"

\* C10: _export_collection attempts every (map, subfolder) pair in map-major
\* order, then every property, then the table; a surface failing with a
\* lookup error or a property failing with a value error never stops the run;
\* the logged count is the number of items whose export call returned, between
\* 0 and |maps| * |map_subfolders| + |properties| + 1.
C10_EveryItemAttemptedAndCounted ==
    LET items == ItemsInOrder(report_output)
    IN  /\ IsPrefix(attempted, items)
        /\ count = Len(exported)
        /\ pc = "aborted" =>
               (attempted # <<>> /\ ~HandlerCatches(Last(attempted), exc))
        /\ pc = "done" =>
               /\ attempted = items
               /\ count >= 0
               /\ count <= Len(report_output.maps) * Len(report_output.map_subfolders)
                              + Len(report_output.properties) + 1
               /\ \A k \in 1..Len(exported) :
                      \E a \in 1..Len(attempted) : attempted[a] = exported[k]

C10_Witness ==
    /\ pc = "done"
    /\ Len(report_output.maps) = 2
    /\ Len(report_output.map_subfolders) = 2
    /\ Len(report_output.properties) = 2
    /\ report_output.table # None
    /\ Len(attempted) = 7
    /\ count = 4
    /\ exported[1].kind = "surface"
    /\ exported[1] # attempted[1]
    /\ exported[4].kind = "table"

====
